---- MODULE Spec2Model ----
(***************************************************************************)
(* Kalman-filter pairs trading: the two estimators (src/src/kalman_filter  *)
(* .py), the back-test loop (src/src/backtest.py) and the evaluator        *)
(* (src/src/evaluator.py).                                                 *)
(*                                                                         *)
(* Numbers.  The program computes in IEEE double precision.  The model     *)
(* computes with exact extended rationals <<n, d>>, d >= 0, in lowest      *)
(* terms: d > 0 is the finite value n/d, <<1,0>> is +inf, <<-1,0>> is      *)
(* -inf and <<0,0>> is NaN, with numpy's rules for what a float64         *)
(* division by zero and an operation on inf/NaN return (numpy warns and    *)
(* goes on).  A division of two Python scalars by zero raises              *)
(* ZeroDivisionError instead (reset(), l.15 and l.49).  pandas reductions  *)
(* skip NaN.  Rounding, signed zeros and overflow are not modelled.        *)
(***************************************************************************)
EXTENDS Integers, Sequences, FiniteSets, TLC

VARIABLES
    \* ---- run_kalman_backtest (src/src/backtest.py) ----
    pc,                 \* "estimate" (l.30-43), "trade" (l.61-141), "done" (l.144)
    z_entry, z_exit,    \* arguments of the call
    df,                 \* the data frame: rows appended by the first loop, then
                        \* given a zscore column and stripped of NaN rows (l.46-49)
    i,                  \* the trading loop's index (0-based, as in the code)
    position, equity, trade_log,
    entry_price_3m, entry_price_perp, entry_hedge_ratio,
    \* ---- KalmanFilter / RollingKalmanFilter (src/src/kalman_filter.py) ----
    kf,                 \* the estimator object
    ncalls,             \* number of update() calls made on kf
    since_reset,        \* those made since kf was constructed or reset by its caller
    lastObs,            \* the (y, x) of the latest update() call
    outcome,            \* how the latest update() call ended
    \* ---- evaluate (src/src/evaluator.py) ----
    evalArgs,           \* the arguments of the call
    evalOut             \* its outcome

vars == <<pc, z_entry, z_exit, df, i, position, equity, trade_log,
          entry_price_3m, entry_price_perp, entry_hedge_ratio,
          kf, ncalls, since_reset, lastObs, outcome, evalArgs, evalOut>>

backtestVars == <<pc, z_entry, z_exit, df, i, position, equity, trade_log,
                  entry_price_3m, entry_price_perp, entry_hedge_ratio>>
filterVars == <<kf, ncalls, since_reset, lastObs, outcome>>
evalVars == <<evalArgs, evalOut>>

----------------------------------------------------------------------------
(* Extended rational arithmetic (the floats of the program).               *)

Abs(n) == IF n < 0 THEN -n ELSE n
Sgn(n) == IF n > 0 THEN 1 ELSE IF n < 0 THEN -1 ELSE 0

RECURSIVE GCD(_, _)
GCD(a, b) == IF b = 0 THEN a ELSE GCD(b, a % b)

\* n/d in lowest terms with d >= 0; d = 0 gives +inf, -inf or NaN by n's sign.
Norm(n, d) ==
    IF d = 0 THEN <<Sgn(n), 0>>
    ELSE LET g == GCD(Abs(n), Abs(d))
             s == IF d < 0 THEN -1 ELSE 1
         IN  <<(s * n) \div g, Abs(d) \div g>>

Rat(n) == <<n, 1>>
Zero == Rat(0)
One == Rat(1)
NaN == <<0, 0>>

IsFinite(a) == a[2] # 0
IsNaN(a) == a = NaN

FNeg(a) == <<-a[1], a[2]>>
FAdd(a, b) ==
    IF a[2] = 0 /\ b[2] = 0
    THEN (IF a[1] = b[1] THEN a ELSE NaN)
    ELSE Norm(a[1] * b[2] + b[1] * a[2], a[2] * b[2])
FSub(a, b) == FAdd(a, FNeg(b))
FMul(a, b) == Norm(a[1] * b[1], a[2] * b[2])
FDiv(a, b) ==
    LET n == a[1] * b[2]
        d == a[2] * b[1]
    IN  IF d = 0 THEN <<Sgn(n) * (IF b[1] < 0 THEN -1 ELSE 1), 0>>
        ELSE Norm(n, d)
FAbs(a) == <<Abs(a[1]), a[2]>>

\* Comparisons; every comparison with NaN is false.
FLt(a, b) ==
    /\ ~IsNaN(a)
    /\ ~IsNaN(b)
    /\ IF a[2] = 0 /\ b[2] = 0 THEN a[1] < b[1]
       ELSE a[1] * b[2] < b[1] * a[2]
FLe(a, b) == FLt(a, b) \/ (~IsNaN(a) /\ a = b)
FGt(a, b) == FLt(b, a)

----------------------------------------------------------------------------
(* src/src/kalman_filter.py                                                *)

\* numpy: 2-vectors and 2x2 matrices of floats
Dot(u, v) == FAdd(FMul(u[1], v[1]), FMul(u[2], v[2]))
MatVec(M, v) == <<Dot(M[1], v), Dot(M[2], v)>>
VecMat(v, M) == <<Dot(v, <<M[1][1], M[2][1]>>), Dot(v, <<M[1][2], M[2][2]>>)>>
Outer(u, v) == <<<<FMul(u[1], v[1]), FMul(u[1], v[2])>>,
                 <<FMul(u[2], v[1]), FMul(u[2], v[2])>>>>
Eye2 == <<<<One, Zero>>, <<Zero, One>>>>
Zeros2 == <<Zero, Zero>>
ScalMat(c, M) == <<<<FMul(c, M[1][1]), FMul(c, M[1][2])>>,
                   <<FMul(c, M[2][1]), FMul(c, M[2][2])>>>>
MatAdd(A, B) == <<<<FAdd(A[1][1], B[1][1]), FAdd(A[1][2], B[1][2])>>,
                  <<FAdd(A[2][1], B[2][1]), FAdd(A[2][2], B[2][2])>>>>
MatSub(A, B) == <<<<FSub(A[1][1], B[1][1]), FSub(A[1][2], B[1][2])>>,
                  <<FSub(A[2][1], B[2][1]), FSub(A[2][2], B[2][2])>>>>
MatAddScalar(A, c) == <<<<FAdd(A[1][1], c), FAdd(A[1][2], c)>>,
                        <<FAdd(A[2][1], c), FAdd(A[2][2], c)>>>>
VecDivScalar(v, c) == <<FDiv(v[1], c), FDiv(v[2], c)>>
VecScale(v, c) == <<FMul(v[1], c), FMul(v[2], c)>>
VecAdd(u, v) == <<FAdd(u[1], v[1]), FAdd(u[2], v[2])>>

\* self.delta / (1 - self.delta) divides two Python scalars: a zero divisor
\* raises ZeroDivisionError, whatever the dividend
PyDivRaises(a, b) == b = Zero

\* KalmanFilter.reset / RollingKalmanFilter.reset: the same assignments; the
\* standard filter has no spread_history (kept empty here) and no window (0).
\* Field raised names the exception the latest reset() of the object ended
\* with ("none": it returned); beta and P are assigned before l.15 / l.49.
KF_reset(f) ==
    IF PyDivRaises(f.delta, FSub(One, f.delta))
    THEN [f EXCEPT !.beta = Zeros2,
                   !.P = Eye2,
                   !.raised = "ZeroDivisionError"]
    ELSE [f EXCEPT !.beta = Zeros2,
                   !.P = Eye2,
                   !.Vw = ScalMat(FDiv(f.delta, FSub(One, f.delta)), Eye2),
                   !.Ve = f.R,
                   !.raised = "none"]

RKF_reset(f) ==
    IF PyDivRaises(f.delta, FSub(One, f.delta))
    THEN [f EXCEPT !.beta = Zeros2,
                   !.P = Eye2,
                   !.raised = "ZeroDivisionError"]
    ELSE [f EXCEPT !.beta = Zeros2,
                   !.P = Eye2,
                   !.Vw = ScalMat(FDiv(f.delta, FSub(One, f.delta)), Eye2),
                   !.Ve = f.R,
                   !.spread_history = <<>>,
                   !.raised = "none"]

\* the attributes __init__ sets before it calls reset(); the others are
\* placeholders until reset() assigns them
Blank(cls, window, delta, R) ==
    [cls |-> cls, window |-> window, delta |-> delta, R |-> R,
     beta |-> Zeros2, P |-> Eye2, Vw |-> Eye2, Ve |-> R, spread_history |-> <<>>,
     raised |-> "none"]

\* KalmanFilter.__init__(delta, R); raised # "none": the constructor raised
\* and there is no object
KF_init(delta, R) == KF_reset(Blank("KalmanFilter", 0, delta, R))

\* RollingKalmanFilter.__init__(window, delta, R)
RKF_init(window, delta, R) == RKF_reset(Blank("RollingKalmanFilter", window, delta, R))

\* np.dot(x_vec, P_x) + self.Ve (l.26-27)
KF_denominator(f, x) ==
    LET x_vec == <<One, x>>
    IN  FAdd(Dot(x_vec, MatVec(f.P, x_vec)), f.Ve)

\* S (l.57, l.62)
RKF_denominator(f, x) ==
    LET x_vec == <<One, x>>
        Pp == MatAdd(f.P, f.Vw)
    IN  FAdd(Dot(VecMat(x_vec, Pp), x_vec), f.Ve)

\* KalmanFilter.update(y, x): the new object and the returned (y_hat, e)
KF_update(f, y, x) ==
    LET x_vec == <<One, x>>
        y_hat == Dot(f.beta, x_vec)
        e == FSub(y, y_hat)
        P_x == MatVec(f.P, x_vec)
        K == VecDivScalar(P_x, KF_denominator(f, x))
        beta2 == VecAdd(f.beta, VecScale(K, e))
        P2 == MatAddScalar(MatSub(f.P, Outer(K, VecMat(x_vec, f.P))), f.R)
    IN  [obj |-> [f EXCEPT !.beta = beta2, !.P = P2], ret |-> <<y_hat, e>>]

\* the window test of RollingKalmanFilter.update (l.69)
WindowFullOffByOne(history, window) == Len(history) >= window
WindowFull(history, window) == Len(history) > window

\* RollingKalmanFilter.update(y, x); obj.raised # "none": reset() raised and
\* so did the call
RKF_update(f, y, x) ==
    LET x_vec == <<One, x>>
        Pp == MatAdd(f.P, f.Vw)
        yhat == Dot(f.beta, x_vec)
        e == FSub(y, yhat)
        S == RKF_denominator(f, x)
        K == VecDivScalar(MatVec(Pp, x_vec), S)
        beta2 == VecAdd(f.beta, VecScale(K, e))
        P2 == MatSub(Pp, Outer(K, VecMat(x_vec, Pp)))
        hist == Append(f.spread_history, e)
        g == [f EXCEPT !.beta = beta2, !.P = P2, !.spread_history = hist]
    IN  [obj |-> IF WindowFull(hist, f.window) THEN RKF_reset(g) ELSE g,
         ret |-> <<yhat, e>>]

AllFinite(f) ==
    /\ \A k \in 1..2 : IsFinite(f.beta[k])
    /\ \A k \in 1..2 : \A l \in 1..2 : IsFinite(f.P[k][l])

----------------------------------------------------------------------------
(* The estimators driven by a caller: construction, then update() and      *)
(* reset() calls.                                                          *)

MaxWindow == 2                    \* largest window given to RollingKalmanFilter
MaxCalls == MaxWindow + 2         \* update() calls made on one object
Deltas == {Zero, <<1, 2>>, One}   \* the delta arguments tried
Noises == {Zero, One}             \* the R arguments tried
Observations == {<<Rat(y), Rat(x)>> : y \in 0..1, x \in 0..1}

NoOutcome == [status |-> "none", denominator |-> One, ret |-> <<Zero, Zero>>]



\* a call kf.update(y, x) on a KalmanFilter: numpy divides by a zero
\* denominator with a warning, so every call returns.  No call is made on an
\* object whose constructor raised.
KFUpdateCall ==
    /\ kf.cls = "KalmanFilter"
    /\ kf.raised = "none"
    /\ ncalls < MaxCalls
    /\ \E o \in Observations :
          LET r == KF_update(kf, o[1], o[2])
          IN  /\ kf' = r.obj
              /\ lastObs' = o
              /\ outcome' = [status |-> "returned",
                             denominator |-> KF_denominator(kf, o[2]),
                             ret |-> r.ret]
    /\ ncalls' = ncalls + 1
    /\ since_reset' = since_reset + 1
    /\ UNCHANGED <<backtestVars, evalVars>>

\* a call kf.update(y, x) on a RollingKalmanFilter
RKFUpdateCall ==
    /\ kf.cls = "RollingKalmanFilter"
    /\ kf.raised = "none"
    /\ ncalls < MaxCalls
    /\ \E o \in Observations :
          LET r == RKF_update(kf, o[1], o[2])
          IN  /\ kf' = r.obj
              /\ lastObs' = o
              /\ outcome' = [status |-> IF r.obj.raised = "none"
                                         THEN "returned" ELSE "raised",
                             denominator |-> RKF_denominator(kf, o[2]),
                             ret |-> r.ret]
    /\ ncalls' = ncalls + 1
    /\ since_reset' = since_reset + 1
    /\ UNCHANGED <<backtestVars, evalVars>>

\* a call kf.reset() by the caller of a KalmanFilter
KFResetCall ==
    /\ kf.cls = "KalmanFilter"
    /\ kf.raised = "none"
    /\ kf' = KF_reset(kf)
    /\ since_reset' = 0
    /\ UNCHANGED <<ncalls, lastObs, outcome, backtestVars, evalVars>>

\* a call kf.reset() by the caller of a RollingKalmanFilter
RKFResetCall ==
    /\ kf.cls = "RollingKalmanFilter"
    /\ kf.raised = "none"
    /\ kf' = RKF_reset(kf)
    /\ since_reset' = 0
    /\ UNCHANGED <<ncalls, lastObs, outcome, backtestVars, evalVars>>

----------------------------------------------------------------------------
(* src/src/backtest.py: run_kalman_backtest                                *)

initial_capital == 100000
trade_notional == 100000
ZWindow == 40                     \* rolling(40)
MinHedge == <<1, 20>>             \* 0.05

\* A z-score is kept exact as the pair [d, v] computed from the window's
\* W spreads s_1..s_W (the last is the row's own):
\*     d = W*s_W - sum(s),  v = W*sum(s^2) - sum(s)^2,
\* so that  spread - mean = d/W,  std^2 = v/(W*(W-1))  (pandas: ddof = 1)
\* and      zscore = (d/W) / sqrt(v/(W*(W-1))).
\* v = 0 (with d = 0) stands for NaN: a window not yet full, or 0/0.
ZNaN == [d |-> 0, v |-> 0]
ZIsNaN(z) == z.v = 0

\* zscore < c and zscore > c for a finite rational c = p/q, decided on squares
ZLt(z, c) ==
    LET A == z.d * z.d * (ZWindow - 1) * c[2] * c[2]     \* (z*q)^2 * W*v
        B == c[1] * c[1] * ZWindow * z.v                 \* p^2 * W*v
    IN  /\ ~ZIsNaN(z)
        /\ IF z.d < 0
           THEN (c[1] >= 0 \/ A > B)
           ELSE (c[1] > 0 /\ A < B)
ZGt(z, c) == ZLt([d |-> -z.d, v |-> z.v], FNeg(c))

RECURSIVE SumSpread(_, _, _)
SumSpread(rows, lo, hi) ==
    IF lo > hi THEN 0 ELSE rows[hi].spread + SumSpread(rows, lo, hi - 1)
RECURSIVE SumSquare(_, _, _)
SumSquare(rows, lo, hi) ==
    IF lo > hi THEN 0
    ELSE rows[hi].spread * rows[hi].spread + SumSquare(rows, lo, hi - 1)

\* (spread - spread.rolling(40).mean()) / spread.rolling(40).std() at row t (l.48)
RollingZscore(rows, t) ==
    IF t < ZWindow THEN ZNaN
    ELSE LET s1 == SumSpread(rows, t - ZWindow + 1, t)
             s2 == SumSquare(rows, t - ZWindow + 1, t)
             v == ZWindow * s2 - s1 * s1
         IN  IF v = 0 THEN ZNaN
             ELSE [d |-> ZWindow * rows[t].spread - s1, v |-> v]

\* df['zscore'] = ...; df.dropna(inplace=True) (l.46-49)
WithZscore(rows) ==
    [t \in 1..Len(rows) |->
        [timestamp |-> rows[t].timestamp, btc_3m |-> rows[t].btc_3m,
         btc_perp |-> rows[t].btc_perp, spread |-> rows[t].spread,
         hedge_ratio |-> rows[t].hedge_ratio, zscore |-> RollingZscore(rows, t)]]

\* dropna drops a row with NaN in any column; a spread is a whole number here
HasNa(r) ==
    \/ IsNaN(r.btc_3m)
    \/ IsNaN(r.btc_perp)
    \/ IsNaN(r.hedge_ratio)
    \/ ZIsNaN(r.zscore)
DropNa(rows) == SelectSeq(rows, LAMBDA r : ~HasNa(r))

\* df.iloc[k]
Iloc(rows, k) == rows[k + 1]

\* range(1, len(df)) (l.61): the first index of the trading loop
FirstIndex == 1

\* beta_1 <= 0 or abs(beta_1) < 0.05 (l.73)
IneligibleSignOnly(beta_1) == FLe(beta_1, Zero)
Ineligible(beta_1) == FLe(beta_1, Zero) \/ FLt(FAbs(beta_1), MinHedge)

\* position == 0 (l.77)
IsFlatAlways(pos) == TRUE
IsFlat(pos) == pos = 0

\* row['zscore'] < -z_entry (l.79), row['zscore'] > z_entry (l.86)
LongEntry(z, ze) == ZLt(z, FNeg(ze))
ShortEntry(z, ze) == ZGt(z, ze)

\* row['zscore'] < z_exit (l.104), row['zscore'] > -z_exit (l.122)
LongExitSymmetric(z, zx) == ZGt(z, FNeg(zx))
LongExit(z, zx) == ZLt(z, zx)
ShortExit(z, zx) == ZGt(z, FNeg(zx))

\* l.80-84 and l.87-91
Enter(loc, row, side) ==
    [loc EXCEPT !.position = side,
                !.entry_flag = TRUE,
                !.entry_price_3m = row.btc_3m,
                !.entry_price_perp = row.btc_perp,
                !.entry_hedge_ratio = row.hedge_ratio]

\* l.95-101
LongPnl(loc, row) ==
    LET long_qty == FDiv(Rat(trade_notional), loc.entry_price_3m)
        short_qty == FDiv(FMul(Rat(trade_notional), loc.entry_hedge_ratio),
                          loc.entry_price_perp)
    IN  FAdd(FMul(long_qty, FSub(row.btc_3m, loc.entry_price_3m)),
             FMul(short_qty, FSub(loc.entry_price_perp, row.btc_perp)))

\* l.113-119
ShortPnl(loc, row) ==
    LET short_qty == FDiv(Rat(trade_notional), loc.entry_price_3m)
        long_qty == FDiv(FMul(Rat(trade_notional), loc.entry_hedge_ratio),
                         loc.entry_price_perp)
    IN  FAdd(FMul(short_qty, FSub(loc.entry_price_3m, row.btc_3m)),
             FMul(long_qty, FSub(row.btc_perp, loc.entry_price_perp)))

\* l.105-109: loc.unrealized_pnl holds the PnL just computed
ExitLongKeepsUnrealized(loc) ==
    [loc EXCEPT !.position = 0,
                !.realized_pnl = loc.unrealized_pnl,
                !.equity = FAdd(loc.equity, loc.unrealized_pnl),
                !.exit_flag = TRUE]
ExitLong(loc) ==
    [loc EXCEPT !.position = 0,
                !.realized_pnl = loc.unrealized_pnl,
                !.equity = FAdd(loc.equity, loc.unrealized_pnl),
                !.unrealized_pnl = Zero,
                !.exit_flag = TRUE]

\* l.123-127
ExitShortNoFlag(loc) ==
    [loc EXCEPT !.position = 0,
                !.realized_pnl = loc.unrealized_pnl,
                !.equity = FAdd(loc.equity, loc.unrealized_pnl),
                !.unrealized_pnl = Zero]
ExitShort(loc) ==
    [loc EXCEPT !.position = 0,
                !.realized_pnl = loc.unrealized_pnl,
                !.equity = FAdd(loc.equity, loc.unrealized_pnl),
                !.unrealized_pnl = Zero,
                !.exit_flag = TRUE]

\* l.76-127: the branches of one eligible step, on the locals as l.65-68 set them
Decide(loc, row, ze, zx) ==
    IF IsFlat(loc.position)
    THEN IF LongEntry(row.zscore, ze) THEN Enter(loc, row, 1)
         ELSE IF ShortEntry(row.zscore, ze) THEN Enter(loc, row, -1)
         ELSE loc
    ELSE IF loc.position = 1
    THEN LET m == [loc EXCEPT !.unrealized_pnl = LongPnl(loc, row)]
         IN  IF LongExit(row.zscore, zx) THEN ExitLong(m) ELSE m
    ELSE IF loc.position = -1
    THEN LET m == [loc EXCEPT !.unrealized_pnl = ShortPnl(loc, row)]
         IN  IF ShortExit(row.zscore, zx) THEN ExitShort(m) ELSE m
    ELSE loc

\* l.130-141
LogEntry(loc, row) ==
    [timestamp |-> row.timestamp,
     position |-> loc.position,
     zscore |-> row.zscore,
     spread |-> row.spread,
     hedge_ratio |-> row.hedge_ratio,
     realized_pnl |-> loc.realized_pnl,
     unrealized_pnl |-> loc.unrealized_pnl,
     equity |-> loc.equity,
     entry_signal |-> loc.entry_flag,
     exit_signal |-> loc.exit_flag]

\* ---- the inputs of the call ----
\* kalman_class is an argument: what its update() returns (the spread) and its
\* beta[1] (the hedge ratio) are inputs here, with the two prices of the row.
\* Spreads are whole numbers, so that the rolling sums are integers.
MaxTail == 4                      \* rows after the first ZWindow - 1

InRow(p3m, perp, s, h) ==
    [btc_3m |-> p3m, btc_perp |-> perp, spread |-> s, hedge_ratio |-> h]

\* the first ZWindow - 1 rows: spreads 0, 2, 0, 2, ... (mean 1, std about 1)
WarmupRow(t) == InRow(Rat(1), Rat(1), 2 * (t % 2), One)

TailRows ==
    {InRow(Rat(1), Rat(1), s, One) : s \in 0..2}
      \cup {InRow(Rat(2), Rat(3), s, MinHedge) : s \in 0..2}
      \cup {InRow(Rat(2), Rat(3), 0, Rat(-1)), InRow(Rat(1), Rat(1), 2, <<1, 50>>)}
      \cup {InRow(Rat(1), Rat(1), 0, NaN)}

Thresholds == {<<<<4, 5>>, <<4, 5>>>>, <<<<1, 2>>, <<3, 2>>>>}

Stamp(r, t) ==
    [timestamp |-> t, btc_3m |-> r.btc_3m, btc_perp |-> r.btc_perp,
     spread |-> r.spread, hedge_ratio |-> r.hedge_ratio, zscore |-> ZNaN]



\* l.30-43: one iteration of the estimation loop, on the next row of the input
EstimateStep ==
    /\ pc = "estimate"
    /\ Len(df) < ZWindow - 1 + MaxTail
    /\ \E r \in (IF Len(df) < ZWindow - 1 THEN {WarmupRow(Len(df) + 1)} ELSE TailRows) :
          df' = Append(df, Stamp(r, Len(df) + 1))
    /\ UNCHANGED <<pc, z_entry, z_exit, i, position, equity, trade_log,
                   entry_price_3m, entry_price_perp, entry_hedge_ratio>>
    /\ UNCHANGED <<filterVars, evalVars>>

\* l.46-58: the input is exhausted; z-scores, dropna, the trading locals
StartTrading ==
    /\ pc = "estimate"
    /\ pc' = "trade"
    /\ df' = DropNa(WithZscore(df))
    /\ i' = FirstIndex
    /\ position' = 0
    /\ equity' = Rat(initial_capital)
    /\ trade_log' = <<>>
    /\ entry_price_3m' = Zero
    /\ entry_price_perp' = Zero
    /\ entry_hedge_ratio' = One
    /\ UNCHANGED <<z_entry, z_exit>>
    /\ UNCHANGED <<filterVars, evalVars>>

\* l.61-141: one iteration of the trading loop
TradeStep ==
    /\ pc = "trade"
    /\ i < Len(df)
    /\ LET row == Iloc(df, i)
           loc == [position |-> position, equity |-> equity,
                   entry_price_3m |-> entry_price_3m,
                   entry_price_perp |-> entry_price_perp,
                   entry_hedge_ratio |-> entry_hedge_ratio,
                   entry_flag |-> FALSE, exit_flag |-> FALSE,
                   unrealized_pnl |-> Zero, realized_pnl |-> Zero]
           new == Decide(loc, row, z_entry, z_exit)
       IN  IF Ineligible(row.hedge_ratio)
           THEN UNCHANGED <<position, equity, trade_log, entry_price_3m,
                            entry_price_perp, entry_hedge_ratio>>
           ELSE /\ position' = new.position
                /\ equity' = new.equity
                /\ entry_price_3m' = new.entry_price_3m
                /\ entry_price_perp' = new.entry_price_perp
                /\ entry_hedge_ratio' = new.entry_hedge_ratio
                /\ trade_log' = Append(trade_log, LogEntry(new, row))
    /\ i' = i + 1
    /\ UNCHANGED <<pc, z_entry, z_exit, df>>
    /\ UNCHANGED <<filterVars, evalVars>>

\* l.144
ReturnLog ==
    /\ pc = "trade"
    /\ i >= Len(df)
    /\ pc' = "done"
    /\ UNCHANGED <<z_entry, z_exit, df, i, position, equity, trade_log,
                   entry_price_3m, entry_price_perp, entry_hedge_ratio>>
    /\ UNCHANGED <<filterVars, evalVars>>

----------------------------------------------------------------------------
(* src/src/evaluator.py: evaluate                                          *)

\* pandas reductions and accumulations skip NaN (skipna=True)
NotNa(seq) == SelectSeq(seq, LAMBDA v : ~IsNaN(v))

\* the running sum with every NaN counted as 0
RECURSIVE NanSum(_, _)
NanSum(seq, k) ==
    IF k = 0 THEN Zero
    ELSE IF IsNaN(seq[k]) THEN NanSum(seq, k - 1)
    ELSE FAdd(NanSum(seq, k - 1), seq[k])

\* the running maximum with every NaN counted as -inf
RECURSIVE NanMax(_, _)
NanMax(seq, k) ==
    IF k = 0 THEN <<-1, 0>>
    ELSE LET m == NanMax(seq, k - 1)
         IN  IF IsNaN(seq[k]) THEN m
             ELSE IF FGt(seq[k], m) THEN seq[k] ELSE m

\* Series.cumsum() at position k: NaN where the value is NaN
CumSum(seq, k) == IF IsNaN(seq[k]) THEN NaN ELSE NanSum(seq, k)

\* Series.cummax() at position k: NaN where the value is NaN
CumMax(seq, k) == IF IsNaN(seq[k]) THEN NaN ELSE NanMax(seq, k)

\* Series.max() of the first k values: NaN when all of them are NaN
SeqMax(seq, k) ==
    IF \A j \in 1..k : IsNaN(seq[j]) THEN NaN ELSE NanMax(seq, k)

\* Series.mean(): over the values that are not NaN; NaN when there is none
Mean(seq) == FDiv(NanSum(seq, Len(seq)), Rat(Len(NotNa(seq))))

\* Series.std() squared (ddof = 1) over the values that are not NaN: NaN for
\* fewer than two of them
Variance(seq) ==
    LET xs == NotNa(seq)
    IN  IF Len(xs) < 2 THEN NaN
        ELSE LET m == Mean(xs)
                 sq == [k \in 1..Len(xs) |-> FMul(FSub(xs[k], m), FSub(xs[k], m))]
                 RECURSIVE Total(_)
                 Total(k) == IF k = 0 THEN Zero ELSE FAdd(Total(k - 1), sq[k])
             IN  FDiv(Total(Len(xs)), Rat(Len(xs) - 1))

\* pnl.mean() / pnl.std() * np.sqrt(252) if pnl.std() > 0 else 0 (l.11), kept
\* exact as its sign and its square
SharpeRatio(pnl) ==
    LET m == Mean(pnl)
        v == Variance(pnl)
    IN  IF FGt(v, Zero)
        THEN [sgn |-> Sgn(m[1]), sq |-> FDiv(FMul(FMul(m, m), Rat(252)), v)]
        ELSE [sgn |-> 0, sq |-> Zero]

\* evaluate(trade_log, initial_equity).  A frame of no rows: l.7 raises KeyError
\* when it has no columns (what run_kalman_backtest returns for no entries),
\* and otherwise l.8 raises IndexError on iloc[0].
Evaluate(log, initial_equity) ==
    IF Len(log) = 0 THEN [status |-> "raised", metrics |-> <<>>]
    ELSE LET n == Len(log)
             pnl == [k \in 1..n |-> FAdd(log[k].realized_pnl, log[k].unrealized_pnl)]
             curve == [k \in 1..n |-> FAdd(log[1].equity, CumSum(pnl, k))]
             dd == [k \in 1..n |-> FSub(CumMax(curve, k), curve[k])]
         IN  [status |-> "returned",
              metrics |-> [TotalReturn |-> FSub(log[n].equity, log[1].equity),
                           SharpeRatio |-> SharpeRatio(pnl),
                           MaxDrawdown |-> SeqMax(dd, n),
                           NumberOfTrades |-> n,
                           AverageTradePnL |-> Mean(pnl)]]

\* ---- the inputs of the call ----
MaxLogRows == 2                   \* rows of the trade log given to evaluate

EvalRows ==
    {[realized_pnl |-> Rat(r), unrealized_pnl |-> Rat(u), equity |-> Rat(q)] :
        r \in {0, 100}, u \in {0, -50}, q \in {100000, 100100}}
    \cup {[realized_pnl |-> NaN, unrealized_pnl |-> Zero, equity |-> Rat(100100)]}
EvalLogs == UNION {[1..n -> EvalRows] : n \in 0..MaxLogRows}
InitialEquities == {One, Rat(100000)}



EvaluateCall ==
    /\ evalOut.status = "pending"
    /\ evalOut' = Evaluate(evalArgs.trade_log, evalArgs.initial_equity)
    /\ UNCHANGED <<evalArgs, backtestVars, filterVars>>

----------------------------------------------------------------------------
(* Specifications                                                          *)

\* run_kalman_backtest is called; its locals hold what l.52-58 give them
BacktestInit ==
    /\ pc = "estimate"
    /\ \E th \in Thresholds : z_entry = th[1] /\ z_exit = th[2]
    /\ df = <<>>
    /\ i = 0
    /\ position = 0
    /\ equity = Rat(initial_capital)
    /\ trade_log = <<>>
    /\ entry_price_3m = Zero
    /\ entry_price_perp = Zero
    /\ entry_hedge_ratio = One
    /\ kf = KF_init(Zero, One)
    /\ ncalls = 0
    /\ since_reset = 0
    /\ lastObs = <<Zero, Zero>>
    /\ outcome = NoOutcome
    /\ evalArgs = [trade_log |-> <<>>, initial_equity |-> One]
    /\ evalOut = [status |-> "idle", metrics |-> <<>>]

BacktestNext == EstimateStep \/ StartTrading \/ TradeStep \/ ReturnLog
SpecBacktest == BacktestInit /\ [][BacktestNext]_vars

\* an estimator is constructed
FilterInit ==
    /\ kf \in {KF_init(d, r) : d \in Deltas, r \in Noises}
           \cup {RKF_init(w, d[1], d[2]) : w \in 1..MaxWindow, d \in Deltas \X Noises}
    /\ ncalls = 0
    /\ since_reset = 0
    /\ lastObs = <<Zero, Zero>>
    /\ outcome = NoOutcome
    /\ pc = "idle"
    /\ z_entry = <<4, 5>>
    /\ z_exit = <<4, 5>>
    /\ df = <<>>
    /\ i = 0
    /\ position = 0
    /\ equity = Rat(initial_capital)
    /\ trade_log = <<>>
    /\ entry_price_3m = Zero
    /\ entry_price_perp = Zero
    /\ entry_hedge_ratio = One
    /\ evalArgs = [trade_log |-> <<>>, initial_equity |-> One]
    /\ evalOut = [status |-> "idle", metrics |-> <<>>]

FilterNext == KFUpdateCall \/ RKFUpdateCall \/ KFResetCall \/ RKFResetCall
SpecFilter == FilterInit /\ [][FilterNext]_vars

\* evaluate is called
EvalInit ==
    /\ evalArgs \in [trade_log : EvalLogs, initial_equity : InitialEquities]
    /\ evalOut = [status |-> "pending", metrics |-> <<>>]
    /\ pc = "idle"
    /\ z_entry = <<4, 5>>
    /\ z_exit = <<4, 5>>
    /\ df = <<>>
    /\ i = 0
    /\ position = 0
    /\ equity = Rat(initial_capital)
    /\ trade_log = <<>>
    /\ entry_price_3m = Zero
    /\ entry_price_perp = Zero
    /\ entry_hedge_ratio = One
    /\ kf = KF_init(Zero, One)
    /\ ncalls = 0
    /\ since_reset = 0
    /\ lastObs = <<Zero, Zero>>
    /\ outcome = NoOutcome

EvalNext == EvaluateCall
SpecEval == EvalInit /\ [][EvalNext]_vars

----------------------------------------------------------------------------
(* Properties of run_kalman_backtest, under SpecBacktest                   *)

LogLen == Len(trade_log)
NonFlat(k) == trade_log[k].position # 0
\* a maximal run of non-flat logged positions starts at a and ends at RunEnd(a)
RunStart(a) == NonFlat(a) /\ (a = 1 \/ ~NonFlat(a - 1))
RunEnd(a) ==
    CHOOSE b \in a..LogLen :
        (\A k \in a..b : NonFlat(k)) /\ (b = LogLen \/ ~NonFlat(b + 1))
\* the row of the data frame with a given timestamp
RowAt(ts) == CHOOSE r \in {df[k] : k \in 1..Len(df)} : r.timestamp = ts
\* the hedge-ratio test in the words of the specification: <= 0 or below 0.05
BelowFloor(h) == FLe(h, Zero) \/ FLt(h, <<1, 20>>)
\* the position held when the row stamped ts was reached
PositionBefore(ts) ==
    LET earlier == {k \in 1..LogLen : trade_log[k].timestamp < ts}
    IN  IF earlier = {} THEN 0
        ELSE trade_log[CHOOSE k \in earlier : \A l \in earlier : l <= k].position

\* C1: the position starts Flat, and no step takes it from Long to Short or
\* from Short to Long: every change is to or from Flat.
C1_NoDirectReversal ==
    [][ /\ (pc = "estimate" => position' = 0)
        /\ position' \in {-1, 0, 1}
        /\ (position' # position => (position = 0 \/ position' = 0)) ]_vars

\* C1 witness: a log in which a Long was held and, later, a Short.
C1_Witness ==
    \E a \in 1..LogLen : \E b \in 1..LogLen :
        a < b /\ trade_log[a].position = 1 /\ trade_log[b].position = -1

\* C2 as claimed: in the returned log every maximal non-flat run begins with
\* exactly one entry_signal entry and ends with exactly one exit_signal entry
\* (the one that follows it), runs open at the end of the input included.
C2_EveryRunHasExit ==
    pc = "done" =>
        \A a \in 1..LogLen : RunStart(a) =>
            LET b == RunEnd(a)
            IN  /\ trade_log[a].entry_signal
                /\ \A k \in (a + 1)..b : ~trade_log[k].entry_signal
                /\ \A k \in a..b : ~trade_log[k].exit_signal
                /\ b < LogLen
                /\ trade_log[b + 1].exit_signal

\* C2 amended: every maximal non-flat run begins with exactly one entry_signal
\* entry; a run that ends before the log does is followed by exactly one
\* exit_signal entry; a run that reaches the end of the log has none, and the
\* position is then still open.  No entry or exit signal occurs elsewhere.
C2_RunsEnterOnceExitIfClosed ==
    pc = "done" =>
        /\ \A a \in 1..LogLen : RunStart(a) =>
              LET b == RunEnd(a)
              IN  /\ trade_log[a].entry_signal
                  /\ \A k \in (a + 1)..b : ~trade_log[k].entry_signal
                  /\ \A k \in a..b : ~trade_log[k].exit_signal
                  /\ (b < LogLen => trade_log[b + 1].exit_signal)
                  /\ (b = LogLen => position # 0)
        /\ \A k \in 1..LogLen :
              /\ (trade_log[k].entry_signal => RunStart(k))
              /\ (trade_log[k].exit_signal => (k > 1 /\ NonFlat(k - 1) /\ ~NonFlat(k)))
        /\ (position # 0 => (LogLen > 0 /\ NonFlat(LogLen)))

\* C2 witness: a returned log with a closed run and a run still open at the end.
C2_Witness ==
    /\ pc = "done"
    /\ position # 0
    /\ \E k \in 1..LogLen : trade_log[k].exit_signal

\* the unrealized PnL of spec section 4.3 for a position of the given side
\* entered at row en and marked at row r
SpecPnl(side, en, r) ==
    LET qty1 == FDiv(Rat(trade_notional), en.btc_3m)
        qty2 == FDiv(FMul(Rat(trade_notional), en.hedge_ratio), en.btc_perp)
        leg1 == FMul(qty1, FSub(r.btc_3m, en.btc_3m))
        leg2 == FMul(qty2, FSub(en.btc_perp, r.btc_perp))
    IN  IF side = 1 THEN FAdd(leg1, leg2) ELSE FNeg(FAdd(leg1, leg2))

RECURSIVE RealizedUpTo(_)
RealizedUpTo(k) ==
    IF k = 0 THEN Zero ELSE FAdd(RealizedUpTo(k - 1), trade_log[k].realized_pnl)
EquityBefore(k) == IF k = 1 THEN Rat(initial_capital) ELSE trade_log[k - 1].equity
\* the entry that opened the position closed at log entry k
EntryOf(k) ==
    CHOOSE a \in 1..(k - 1) :
        trade_log[a].entry_signal /\ \A j \in (a + 1)..(k - 1) : ~trade_log[j].entry_signal

\* C3: each logged equity is initial_capital plus the realized PnL logged so
\* far; it differs from the previous entry's only at an exit, by that step's
\* realized PnL, which is the unrealized PnL computed at that step, and the
\* unrealized PnL logged at an exit is 0.
C3_EquityOnlyAtExit ==
    /\ equity = (IF LogLen = 0 THEN Rat(initial_capital) ELSE trade_log[LogLen].equity)
    /\ \A k \in 1..LogLen :
          LET e == trade_log[k]
          IN  /\ e.equity = FAdd(Rat(initial_capital), RealizedUpTo(k))
              /\ (e.equity # EquityBefore(k) => e.exit_signal)
              /\ (~e.exit_signal => e.realized_pnl = Zero)
              /\ (e.exit_signal =>
                    /\ e.equity = FAdd(EquityBefore(k), e.realized_pnl)
                    /\ e.unrealized_pnl = Zero
                    /\ e.realized_pnl =
                          SpecPnl(trade_log[EntryOf(k)].position,
                                  RowAt(trade_log[EntryOf(k)].timestamp),
                                  RowAt(e.timestamp)))

\* C3 witness: a position was marked with a non-zero unrealized PnL and later
\* closed with a non-zero realized PnL.
C3_Witness ==
    \E j \in 1..LogLen : \E k \in 1..LogLen :
        /\ j < k
        /\ trade_log[j].unrealized_pnl # Zero
        /\ trade_log[k].exit_signal
        /\ trade_log[k].realized_pnl # Zero

\* C4: a step whose hedge ratio is <= 0 or below 0.05 appends no log entry and
\* leaves position, entry prices, entry hedge ratio and equity unchanged.
C4_IneligibleStepSkipped ==
    [][ (pc = "trade" /\ i < Len(df) /\ BelowFloor(Iloc(df, i).hedge_ratio)) =>
            /\ trade_log' = trade_log
            /\ position' = position
            /\ entry_price_3m' = entry_price_3m
            /\ entry_price_perp' = entry_price_perp
            /\ entry_hedge_ratio' = entry_hedge_ratio
            /\ equity' = equity ]_vars

\* C4 witness: an ineligible row was passed while Long with a z-score below
\* z_exit (an eligible row would have closed the position), and another while
\* Flat with a z-score above z_entry; neither is in the log.
C4_Witness ==
    /\ \E k \in FirstIndex..(i - 1) :
          LET row == Iloc(df, k)
          IN  /\ BelowFloor(row.hedge_ratio)
              /\ PositionBefore(row.timestamp) = 1
              /\ ZLt(row.zscore, z_exit)
              /\ \A l \in 1..LogLen : trade_log[l].timestamp # row.timestamp
    /\ \E k \in FirstIndex..(i - 1) :
          LET row == Iloc(df, k)
          IN  /\ BelowFloor(row.hedge_ratio)
              /\ PositionBefore(row.timestamp) = 0
              /\ ZGt(row.zscore, z_entry)

\* C9: on an eligible step a Long becomes Flat iff zscore < z_exit and
\* otherwise stays Long; a Short becomes Flat iff zscore > -z_exit and
\* otherwise stays Short.
C9_ExitIffThreshold ==
    [][ (pc = "trade" /\ i < Len(df) /\ ~BelowFloor(Iloc(df, i).hedge_ratio)) =>
            LET z == Iloc(df, i).zscore
            IN  /\ (position = 1 =>
                      /\ (position' = 0 <=> ZLt(z, z_exit))
                      /\ position' \in {0, 1})
                /\ (position = -1 =>
                      /\ (position' = 0 <=> ZGt(z, FNeg(z_exit)))
                      /\ position' \in {0, -1}) ]_vars

\* C9 witness: a Long entered below -z_entry was kept over an eligible step
\* (z-score at least z_exit) and closed on the one after it.
C9_Witness ==
    /\ \E k \in 1..(LogLen - 2) :
          /\ trade_log[k].entry_signal /\ trade_log[k].position = 1
          /\ ZLt(trade_log[k].zscore, FNeg(z_entry))
          /\ trade_log[k + 1].position = 1
          /\ ~ZLt(trade_log[k + 1].zscore, z_exit)
          /\ trade_log[k + 2].exit_signal
    /\ z_entry = <<4, 5>>

\* C10 as claimed: no row before row ZWindow has a defined z-score, and
\* every row kept with a defined z-score and an eligible hedge ratio has
\* exactly one log entry, in input order; fewer than ZWindow rows give an
\* empty log.
C10_EveryDefinedRowLogged ==
    pc = "done" =>
        /\ \A k \in 1..Len(df) : df[k].timestamp >= ZWindow
        /\ [k \in 1..LogLen |-> trade_log[k].timestamp]
             = [k \in 1..Len(SelectSeq(df, LAMBDA r : ~BelowFloor(r.hedge_ratio))) |->
                    SelectSeq(df, LAMBDA r : ~BelowFloor(r.hedge_ratio))[k].timestamp]

----------------------------------------------------------------------------
(* Properties of the estimators, under SpecFilter                          *)

\* the internal state the claims speak of
FilterState(f) == <<f.beta, f.P, f.spread_history>>

\* C5 as claimed: after exactly window + 1 update() calls on a constructed
\* or reset RollingKalmanFilter its state is that of a freshly reset filter
\* after one update() on the (window + 1)-th observation.
C5_ResetThenOneUpdate ==
    (kf.cls = "RollingKalmanFilter" /\ since_reset = kf.window + 1) =>
        FilterState(kf) =
            FilterState(RKF_update(RKF_init(kf.window, kf.delta, kf.R),
                                   lastObs[1], lastObs[2]).obj)

\* C5 amended: after exactly window + 1 update() calls on a constructed or
\* reset RollingKalmanFilter the state is that of a
\* freshly reset filter with no update applied (beta = [0, 0], P = identity,
\* spread_history empty): the (window + 1)-th observation is discarded with
\* the rest.  Before that the history holds one residual per call.
C5_ResetDiscardsAll ==
    kf.cls = "RollingKalmanFilter" =>
        /\ (since_reset = kf.window + 1 =>
                FilterState(kf) = <<<<Zero, Zero>>, <<<<One, Zero>>, <<Zero, One>>>>, <<>>>>)
        /\ (since_reset <= kf.window => Len(kf.spread_history) = since_reset)

\* C5 witness: the (window + 1)-th call was made, on a non-zero observation,
\* by a filter whose state before the call was not the reset state.
C5_Witness ==
    /\ kf.cls = "RollingKalmanFilter"
    /\ kf.window = MaxWindow
    /\ since_reset = kf.window + 1
    /\ lastObs = <<One, One>>
    /\ outcome.ret[2] # One

\* C6 as claimed: an update() whose gain denominator is zero fails with an
\* error; no call returns normally leaving NaN or inf in beta or P.
C6_ZeroDenominatorAborts ==
    outcome.status = "returned" =>
        /\ outcome.denominator # Zero
        /\ AllFinite(kf)

----------------------------------------------------------------------------
(* Properties of evaluate, under SpecEval                                  *)

ScenarioLog ==
    <<[realized_pnl |-> Rat(100), unrealized_pnl |-> Zero, equity |-> Rat(100100)]>>

\* C7 as claimed: evaluate on a log of zero rows returns a metrics mapping and
\* does not raise.
C7_EmptyLogReturns ==
    (evalOut.status # "pending" /\ Len(evalArgs.trade_log) = 0) =>
        evalOut.status = "returned"

\* C8 as claimed: Total Return is the last logged equity minus the starting
\* equity of the run, 100000 (100 for the one-row log of the scenario),
\* Number of Trades is the number of rows, and Sharpe Ratio is 0 when the
\* standard deviation of the per-step PnL is zero or undefined.
C8_TotalReturnFromStart ==
    evalOut.status = "returned" =>
        LET log == evalArgs.trade_log
            pnl == [k \in 1..Len(log) |-> FAdd(log[k].realized_pnl, log[k].unrealized_pnl)]
            m == evalOut.metrics
        IN  /\ m.TotalReturn = FSub(log[Len(log)].equity, Rat(initial_capital))
            /\ m.NumberOfTrades = Len(log)
            /\ ((\A k \in 1..Len(log) : pnl[k] = pnl[1]) => m.SharpeRatio.sgn = 0)
            /\ (log = ScenarioLog =>
                    /\ m.TotalReturn = Rat(100)
                    /\ m.NumberOfTrades = 1
                    /\ m.SharpeRatio.sgn = 0)

====
